---- MODULE Spec2Model ----
(***************************************************************************)
(* A model of jsanalyzer.py: the fetch stage (asyncio.gather over          *)
(* get_js_content), the analysis stage (a ThreadPoolExecutor running       *)
(* explain_with_gemini, collected with as_completed and sorted by index)   *)
(* and the recording loop of main.                                         *)
(*                                                                         *)
(* Python strings are sequences of one-character strings, so that          *)
(* startswith, strip, basename, split, replace and re.sub are computed     *)
(* character by character.                                                 *)
(***************************************************************************)
EXTENDS Integers, Sequences, FiniteSets, TLC

\* ------------------------------------------------------------------ bounds

\* Longest input list file, in lines (Spec).
MaxLines == 2

\* Longest list of refs handed to gather_all (SpecFetch).
MaxRefs == 4

\* Longest list of texts handed to batch_explain_with_gemini (SpecBatch).
MaxTexts == 4

\* Longest ref whose output name is derived (SpecName).
MaxNameLen == 3

\* Longest ref whose output name is derived (SpecSuffix).
MaxSuffixLen == 4

\* Requested thread counts range over -MaxThreadArg..MaxThreadArg (SpecArgs).
MaxThreadArg == 60

\* ------------------------------------------------------- program constants

\* The only status get_js_content accepts.
HTTP_OK == 200

\* The clamp of main: max(1, min(args.thread, 10)).
MIN_THREADS == 1

MAX_THREADS == 10

\* The length [\w-]{8,} asks of a token.
MIN_TOKEN_LEN == 8

\* -------------------------------------------------------- string helpers

\* What str.strip() removes and what \s matches.
Whitespace == {" ", "\n", "\t"}

\* s[i:] of Python, with i counted from 1.
Drop(s, i) == SubSeq(s, i, Len(s))

\* str.startswith
StartsWith(s, prefix) ==
    /\ Len(s) >= Len(prefix)
    /\ SubSeq(s, 1, Len(prefix)) = prefix

\* Whether sub occurs in s at position i.
OccursAt(s, sub, i) ==
    /\ i >= 1
    /\ i + Len(sub) - 1 <= Len(s)
    /\ SubSeq(s, i, i + Len(sub) - 1) = sub

RECURSIVE LStrip(_)
LStrip(s) ==
    IF s # <<>> /\ Head(s) \in Whitespace THEN LStrip(Tail(s)) ELSE s

RECURSIVE RStrip(_)
RStrip(s) ==
    IF s # <<>> /\ s[Len(s)] \in Whitespace
    THEN RStrip(SubSeq(s, 1, Len(s) - 1))
    ELSE s

\* str.strip()
Strip(s) == RStrip(LStrip(s))

\* The decimal digits of a natural number, as str(n) writes them.
Digit(d) == <<"0", "1", "2", "3", "4", "5", "6", "7", "8", "9">>[d + 1]

RECURSIVE IntToStr(_)
IntToStr(n) ==
    IF n < 10 THEN <<Digit(n)>> ELSE IntToStr(n \div 10) \o <<Digit(n % 10)>>

\* The strings over alphabet of length at most n.
RECURSIVE StringsUpTo(_, _)
StringsUpTo(alphabet, n) ==
    IF n = 0
    THEN {<<>>}
    ELSE LET shorter == StringsUpTo(alphabet, n - 1)
         IN  shorter \cup {Append(s, c) : s \in shorter, c \in alphabet}

\* The sequences over S of length at most n.
RECURSIVE SeqsUpTo(_, _)
SeqsUpTo(S, n) ==
    IF n = 0
    THEN {<<>>}
    ELSE LET shorter == SeqsUpTo(S, n - 1)
         IN  shorter \cup {Append(s, x) : s \in shorter, x \in S}

\* The set of elements of a sequence.
Range(s) == {s[i] : i \in DOMAIN s}

\* ---------------------------------------------------------- output names

\* os.path.basename: what follows the last "/".
RECURSIVE basename(_)
basename(path) ==
    IF \E i \in DOMAIN path : path[i] = "/"
    THEN basename(Tail(path))
    ELSE path

\* str.split("?")[0]: what precedes the first "?".
RECURSIVE BeforeQuery(_)
BeforeQuery(s) ==
    IF s = <<>> \/ Head(s) = "?"
    THEN <<>>
    ELSE <<Head(s)>> \o BeforeQuery(Tail(s))

DOT_JS == <<".", "j", "s">>

\* str.replace(".js", ""): every occurrence, left to right, is removed.
RECURSIVE RemoveDotJs(_)
RemoveDotJs(s) ==
    IF s = <<>>
    THEN <<>>
    ELSE IF StartsWith(s, DOT_JS)
         THEN RemoveDotJs(Drop(s, Len(DOT_JS) + 1))
         ELSE <<Head(s)>> \o RemoveDotJs(Tail(s))

\* The character class of re.sub(r'[\\/*?:"<>|]', "_", ...).
UnsafeChars == {"\\", "/", "*", "?", ":", "\"", "<", ">", "|"}

\* The substitution with the backslash missing from its class.
SanitizeChar_noBackslash(c) == IF c \in UnsafeChars \ {"\\"} THEN "_" ELSE c

SanitizeChar(c) == IF c \in UnsafeChars THEN "_" ELSE c

\* re.sub(r'[\\/*?:"<>|]', "_", s)
Sanitize(s) == [i \in DOMAIN s |-> SanitizeChar(s[i])]

\* base and name of main's loop.
OutputName(path) ==
    CHOOSE name \in {Sanitize(RemoveDotJs(base)) : base \in {BeforeQuery(basename(path))}} : TRUE

\* ------------------------------------------------------------ error texts

ERROR_TAG == <<"[", "E", "R", "R", "O", "R", "]">>

\* f"[ERROR] HTTP {r.status_code}"
HttpError(status) == ERROR_TAG \o <<" ", "H", "T", "T", "P", " ">> \o IntToStr(status)

\* "[ERROR] Invalid path"
INVALID_PATH == ERROR_TAG \o <<" ", "I", "n", "v", "a", "l", "i", "d", " ", "p", "a", "t", "h">>

\* f"[ERROR] {e}"
FaultError(msg) == ERROR_TAG \o <<" ">> \o msg

\* f"[ERROR] Gemini failed: {e}"
GeminiError(msg) ==
    ERROR_TAG \o <<" ", "G", "e", "m", "i", "n", "i", " ", "f", "a", "i", "l", "e", "d", ":", " ">> \o msg

\* content.startswith("[ERROR]"), the test of main's two filters.
IsErrorText(content) == StartsWith(content, ERROR_TAG)

\* ----------------------------------------------------------- beautify_js

Quotes == {"\"", "'"}

\* jsbeautifier.beautify, as far as the model's texts exercise it: outside a
\* string literal a binary "=" or "-" is set between spaces and a ";" that
\* is followed by more code ends its line; a string literal is left alone.
\* quote is the quote character of the literal being read, "" outside one.
RECURSIVE BeautifyFrom(_, _)
BeautifyFrom(s, quote) ==
    IF s = <<>>
    THEN <<>>
    ELSE LET c == Head(s)
             rest == Tail(s)
         IN  IF quote # ""
             THEN IF c = quote
                  THEN <<c>> \o BeautifyFrom(rest, "")
                  ELSE <<c>> \o BeautifyFrom(rest, quote)
             ELSE IF c \in Quotes
                  THEN <<c>> \o BeautifyFrom(rest, c)
                  ELSE IF c \in {"=", "-"}
                       THEN <<" ", c, " ">> \o BeautifyFrom(rest, "")
                       ELSE IF c = ";" /\ rest # <<>>
                            THEN <<";", "\n">> \o BeautifyFrom(rest, "")
                            ELSE <<c>> \o BeautifyFrom(rest, "")

beautify_js(code) == Strip(BeautifyFrom(code, ""))

\* ---------------------------------------------------------- extract_info

LowerCase == <<"a", "b", "c", "d", "e", "f", "g", "h", "i", "j", "k", "l", "m",
               "n", "o", "p", "q", "r", "s", "t", "u", "v", "w", "x", "y", "z">>

UpperCase == <<"A", "B", "C", "D", "E", "F", "G", "H", "I", "J", "K", "L", "M",
               "N", "O", "P", "Q", "R", "S", "T", "U", "V", "W", "X", "Y", "Z">>

Digits == {"0", "1", "2", "3", "4", "5", "6", "7", "8", "9"}

\* What [\w-] matches.
TokenChars == Range(LowerCase) \cup Range(UpperCase) \cup Digits \cup {"_", "-"}

\* What [\s=:] matches.
Separators == Whitespace \cup {"=", ":"}

\* re.IGNORECASE: a letter is compared by its lower case.
ToLower == [c \in Range(UpperCase) |-> LowerCase[CHOOSE i \in DOMAIN UpperCase : UpperCase[i] = c]]

Lower(c) == IF c \in DOMAIN ToLower THEN ToLower[c] ELSE c

\* Whether word occurs in s at position i, letters compared without case.
OccursAtNoCase(s, word, i) ==
    /\ i + Len(word) - 1 <= Len(s)
    /\ \A k \in DOMAIN word : Lower(s[i + k - 1]) = word[k]

\* The position after the longest run of characters of class starting at i
\* (i itself when there is none): a greedy "class*".
RunEnd(s, class, i) ==
    LET run[j \in 1..(Len(s) + 1)] ==
            IF j <= Len(s) /\ s[j] \in class THEN run[j + 1] ELSE j
    IN  run[i]

\* Where a match of https?://[^\s'"]+ that starts at i ends (the position
\* after it), 0 when there is none.
UrlMatchEnd(s, i) ==
    LET http == <<"h", "t", "t", "p">>
        sep == <<":", "/", "/">>
        afterScheme ==
            IF ~OccursAt(s, http, i)
            THEN 0
            ELSE IF OccursAt(s, <<"s">> \o sep, i + 4)
                 THEN i + 8
                 ELSE IF OccursAt(s, sep, i + 4) THEN i + 7 ELSE 0
        stop == {c \in Range(s) : c \notin Whitespace \cup Quotes}
        last == IF afterScheme = 0 THEN 0 ELSE RunEnd(s, stop, afterScheme)
    IN  IF afterScheme # 0 /\ last > afterScheme THEN last ELSE 0

\* re.findall(r'https?://[^\s\'"]+', code): the matches from position i on,
\* left to right and without overlap.
FindUrls(s, i) ==
    LET from[j \in 1..(Len(s) + 1)] ==
            IF j > Len(s)
            THEN <<>>
            ELSE LET e == UrlMatchEnd(s, j)
                 IN  IF e = 0
                     THEN from[j + 1]
                     ELSE <<SubSeq(s, j, e - 1)>> \o from[e]
    IN  from[i]

\* Where the keyword (?:api[_-]?key|token|secret) that starts at i ends, 0
\* when there is none.
KeywordEnd(s, i) ==
    LET api == <<"a", "p", "i">>
        key == <<"k", "e", "y">>
    IN  IF OccursAtNoCase(s, <<"t", "o", "k", "e", "n">>, i)
        THEN i + 5
        ELSE IF OccursAtNoCase(s, <<"s", "e", "c", "r", "e", "t">>, i)
             THEN i + 6
             ELSE IF ~OccursAtNoCase(s, api, i)
                  THEN 0
                  ELSE IF i + 3 <= Len(s) /\ s[i + 3] \in {"_", "-"}
                          /\ OccursAtNoCase(s, key, i + 4)
                       THEN i + 7
                       ELSE IF OccursAtNoCase(s, key, i + 3) THEN i + 6 ELSE 0

\* A match of (?:api[_-]?key|token|secret)[\s=:]+["\']?([\w-]{8,}) that
\* starts at i: <<where the group starts, the position after the match>>,
\* <<0, 0>> when there is none. The three classes are disjoint, so the
\* greedy runs need no backtracking.
TokenMatch(s, i) ==
    LET k == KeywordEnd(s, i)
        sepEnd == IF k = 0 THEN 0 ELSE RunEnd(s, Separators, k)
        start == IF sepEnd <= Len(s) /\ sepEnd > 0 /\ s[sepEnd] \in Quotes
                 THEN sepEnd + 1
                 ELSE sepEnd
        stop == IF k = 0 THEN 0 ELSE RunEnd(s, TokenChars, start)
    IN  IF k # 0 /\ sepEnd > k /\ stop - start >= MIN_TOKEN_LEN
        THEN <<start, stop>>
        ELSE <<0, 0>>

\* re.findall of the token pattern: the groups, left to right.
FindTokens(s, i) ==
    LET from[j \in 1..(Len(s) + 1)] ==
            IF j > Len(s)
            THEN <<>>
            ELSE LET m == TokenMatch(s, j)
                 IN  IF m[1] = 0
                     THEN from[j + 1]
                     ELSE <<SubSeq(s, m[1], m[2] - 1)>> \o from[m[2]]
    IN  from[i]

\* list(set(...)) has no order the program controls: the findings are sets.
extract_info(code) ==
    [urls |-> Range(FindUrls(code, 1)), tokens |-> Range(FindTokens(code, 1))]

\* ------------------------------------------------------ explain_with_gemini

\* The f-string of explain_with_gemini: the fixed instructions, the code,
\* the closing line.
Prompt(code) == <<"\n", "Analyze this JavaScript code ... JS Code:", "\n">> \o code \o <<"\n">>

\* What model.generate_content can do with a prompt: answer with a text
\* about that prompt, or raise (quota, transport, a blocked answer) with a
\* message.
OracleOutcomes(prompt) ==
    { [raises |-> FALSE, text |-> <<" ", "r", "e", "p", "o", "r", "t", ":">> \o prompt],
      [raises |-> TRUE, text |-> <<"q", "u", "o", "t", "a">>] }

\* explain_with_gemini returning the bare message of the exception.
explain_with_gemini_untagged(code, outcome) ==
    IF outcome.raises THEN outcome.text ELSE Strip(outcome.text)

\* The try/except of explain_with_gemini around the call whose outcome is
\* given: response.text.strip(), or the error text.
explain_with_gemini(code, outcome) ==
    IF outcome.raises THEN GeminiError(outcome.text) ELSE Strip(outcome.text)

\* results.sort(): tuples (idx, result) compare by idx first; the idx of
\* enumerate are distinct, so the result texts are never compared.
RECURSIVE InsertByIdx(_, _)
InsertByIdx(sorted, pair) ==
    IF sorted = <<>>
    THEN <<pair>>
    ELSE IF pair[1] < Head(sorted)[1]
         THEN <<pair>> \o sorted
         ELSE <<Head(sorted)>> \o InsertByIdx(Tail(sorted), pair)

RECURSIVE SortResults(_)
SortResults(rs) ==
    IF rs = <<>>
    THEN <<>>
    ELSE InsertByIdx(SortResults(SubSeq(rs, 1, Len(rs) - 1)), rs[Len(rs)])

\* [res for _, res in results]
Seconds(pairs) == [k \in DOMAIN pairs |-> pairs[k][2]]

\* ------------------------------------------------------------- the world

URL_A == <<"h", "t", "t", "p", ":", "/", "/", "h", "/", "a", ".", "j", "s", "?", "v">>

FILE_A == <<"a", ".", "j", "s">>

FILE_E == <<"d", "/", "a", ".", "j", "s">>

DIR_D == <<"d">>

NO_FILE == <<"n", "o">>

CODE_A ==
    <<"s", "e", "c", "r", "e", "t", "=", "a", "-", "b", "c", "d", "e", "f", "g", "h", ";",
      "u", "=", "'", "h", "t", "t", "p", ":", "/", "/", "h", "/", "p", "'">>

\* A file whose first characters are those of the error tag.
CODE_E ==
    <<"[", "E", "R", "R", "O", "R", "]", "=", "1", ";",
      "t", "o", "k", "e", "n", ":", "a", "b", "c", "d", "1", "2", "3", "4">>

CODE_B == <<"x", "=", "1">>

\* The regular files of the working directory and their texts.
Files == (FILE_A :> CODE_A) @@ (FILE_E :> CODE_E)

\* Paths that exist and cannot be opened for reading as a text file.
Unreadable == {DIR_D}

\* os.path.exists
PathExists(path) == path \in DOMAIN Files \cup Unreadable

READ_FAULT == <<"I", "s", " ", "a", " ", "d", "i", "r", "e", "c", "t", "o", "r", "y">>

\* What client.get(path) can end in: a response, or a transport fault
\* (a timeout after 10 s, a refused connection) raised as an exception.
RemoteOutcomes ==
    { [fault |-> FALSE, status |-> HTTP_OK, text |-> CODE_B],
      [fault |-> FALSE, status |-> 404, text |-> <<"n", "f">>],
      [fault |-> TRUE, status |-> 0, text |-> <<"t", "i", "m", "e", "o", "u", "t">>] }

\* The refs the input list is written from.
Refs == {URL_A, FILE_A, FILE_E, DIR_D, NO_FILE}

\* The lines an input file is made of: a ref and its line end, a ref between
\* blanks, a line of blanks.
FileLines ==
    {Append(r, "\n") : r \in Refs}
        \cup {<<" ", "a", ".", "j", "s", " ", "\n">>, <<" ", "\n">>}

\* The values of -t the runs of Spec are started with.
ThreadArgs == {0, 2, 57}

\* ----------------------------------------------------------------- state

VARIABLES
    args,              \* [thread, quiet]: the parsed command line
    inputFile,         \* [exists, lines]: the file -i names
    pc,                \* where main is: start, fetch, submit, collect, record, done
    max_workers,       \* the clamped thread count
    paths,             \* the refs read from the input file
    tasks,             \* per ref, its get_js_content task: [st, res]
    raw_results,       \* what asyncio.run(gather_all(paths)) returned
    valid_js,          \* the (path, content) pairs kept
    errored,           \* the (path, error) pairs set aside
    stdout,            \* what main printed, verbose lines left out
    beautified_codes,  \* beautify_js of each kept content
    futures,           \* per submitted idx, its future: [st, result]
    results,           \* the (idx, result) pairs appended in completion order
    explanations,      \* what batch_explain_with_gemini returned
    saved,             \* how many iterations of the recording loop have run
    output,            \* the files of output/: name -> what save_output wrote
    fetched,           \* history: per ref, how its fetch ended: none, ok, error
    fetchOrder,        \* history: the refs' positions in the order their fetches ended
    oracle,            \* history: per idx, [calls, prompt, outcome] of its oracle calls
    saveLog            \* history: the save_output calls, [name, path] in order

vars ==
    <<args, inputFile, pc, max_workers, paths, tasks, raw_results, valid_js,
      errored, stdout, beautified_codes, futures, results, explanations,
      saved, output, fetched, fetchOrder, oracle, saveLog>>

mainVars == <<args, inputFile, max_workers, paths>>

fetchVars == <<tasks, raw_results, valid_js, errored, beautified_codes, fetched, fetchOrder>>

batchVars == <<futures, results, explanations, oracle>>

recordVars == <<saved, output, saveLog>>

\* The empty mapping output/ starts as.
NoFiles == [name \in {} |-> <<>>]

NO_OUTCOME == [raises |-> FALSE, text |-> <<>>]

\* ------------------------------------------------------------------ main

\* max(1, min(args.thread, 10))
Min(a, b) == IF a < b THEN a ELSE b

Max(a, b) == IF a > b THEN a ELSE b

\* The clamp without its upper end.
Clamp_noUpper(thread) == Max(MIN_THREADS, thread)

Clamp(thread) == Max(MIN_THREADS, Min(thread, MAX_THREADS))

\* The comprehension without its "if line.strip()".
ReadPaths_keepBlank(lines) == [k \in DOMAIN lines |-> Strip(lines[k])]

\* [line.strip() for line in f if line.strip()]
RECURSIVE ReadPaths(_)
ReadPaths(lines) ==
    IF lines = <<>>
    THEN <<>>
    ELSE IF Strip(Head(lines)) # <<>>
         THEN <<Strip(Head(lines))>> \o ReadPaths(Tail(lines))
         ELSE ReadPaths(Tail(lines))

\* main from parse_args to the call of asyncio.run: the clamp, the two
\* checks of the input file, and gather_all creating one task per path.
MainStart ==
    /\ pc = "start"
    /\ max_workers' = Clamp(args.thread)
    /\ IF ~inputFile.exists
       THEN /\ stdout' = Append(stdout, <<"[ERROR] Input file not found.">>)
            /\ pc' = "done"
            /\ UNCHANGED <<paths, tasks, fetched>>
       ELSE LET read == ReadPaths(inputFile.lines)
            IN  IF read = <<>>
                THEN /\ stdout' = Append(stdout, <<"[ERROR] No JS paths/URLs found in input file.">>)
                     /\ pc' = "done"
                     /\ UNCHANGED <<paths, tasks, fetched>>
                ELSE /\ paths' = read
                     /\ tasks' = [i \in DOMAIN read |-> [st |-> "created", res |-> <<>>]]
                     /\ fetched' = [i \in DOMAIN read |-> "none"]
                     /\ pc' = "fetch"
                     /\ UNCHANGED stdout
    /\ UNCHANGED <<args, inputFile, raw_results, valid_js, errored, beautified_codes, fetchOrder>>
    /\ UNCHANGED <<batchVars, recordVars>>

\* ----------------------------------------------------------- fetch stage

HTTP_PREFIX == <<"h", "t", "t", "p">>

\* What get_js_content returns for a path that does not start with "http":
\* the text read, the text of the exception open/read raised, or the
\* invalid-path text.
LocalResult(path) ==
    IF PathExists(path)
    THEN IF path \in DOMAIN Files
         THEN <<path, Files[path]>>
         ELSE <<path, FaultError(READ_FAULT)>>
    ELSE <<path, INVALID_PATH>>

\* get_js_content returning r.text whatever the status.
RemoteResult_anyStatus(path, outcome) ==
    IF outcome.fault THEN <<path, FaultError(outcome.text)>> ELSE <<path, outcome.text>>

\* What get_js_content returns once client.get has ended in outcome.
RemoteResult(path, outcome) ==
    IF outcome.fault
    THEN <<path, FaultError(outcome.text)>>
    ELSE <<path, IF outcome.status = HTTP_OK THEN outcome.text ELSE HttpError(outcome.status)>>

\* How a fetch that returned the text counts in the history: ok when the
\* status was 200 or the local read succeeded.
FetchKind(path, isRemote, outcome) ==
    IF isRemote
    THEN IF ~outcome.fault /\ outcome.status = HTTP_OK THEN "ok" ELSE "error"
    ELSE IF path \in DOMAIN Files THEN "ok" ELSE "error"

NO_RESPONSE == [fault |-> FALSE, status |-> 0, text |-> <<>>]

\* The first step of task i, run by the event loop in creation order: a
\* remote path suspends at await client.get, any other path runs to its
\* return without suspending.
get_js_content_start(i) ==
    /\ pc = "fetch"
    /\ i \in DOMAIN tasks
    /\ tasks[i].st = "created"
    /\ \A j \in 1..(i - 1) : tasks[j].st # "created"
    /\ IF StartsWith(paths[i], HTTP_PREFIX)
       THEN /\ tasks' = [tasks EXCEPT ![i].st = "awaiting"]
            /\ UNCHANGED <<fetched, fetchOrder>>
       ELSE /\ tasks' = [tasks EXCEPT ![i] = [st |-> "done", res |-> LocalResult(paths[i])]]
            /\ fetched' = [fetched EXCEPT ![i] = FetchKind(paths[i], FALSE, NO_RESPONSE)]
            /\ fetchOrder' = Append(fetchOrder, i)
    /\ UNCHANGED <<pc, stdout, raw_results, valid_js, errored, beautified_codes>>
    /\ UNCHANGED <<mainVars, batchVars, recordVars>>

\* Task i resumes when its request ends, in whatever order the requests end:
\* with a response, or with the exception the except clause turns into text.
get_js_content_resume(i) ==
    /\ pc = "fetch"
    /\ i \in DOMAIN tasks
    /\ tasks[i].st = "awaiting"
    /\ \A j \in DOMAIN tasks : tasks[j].st # "created"
    /\ \E outcome \in RemoteOutcomes :
           /\ tasks' = [tasks EXCEPT ![i] = [st |-> "done", res |-> RemoteResult(paths[i], outcome)]]
           /\ fetched' = [fetched EXCEPT ![i] = FetchKind(paths[i], TRUE, outcome)]
    /\ fetchOrder' = Append(fetchOrder, i)
    /\ UNCHANGED <<pc, stdout, raw_results, valid_js, errored, beautified_codes>>
    /\ UNCHANGED <<mainVars, batchVars, recordVars>>

\* The tasks' results in the order the tasks ended, as as_completed would
\* hand them back.
gather_as_completed(ts) == [k \in DOMAIN ts |-> ts[fetchOrder[k]].res]

\* What asyncio.gather hands back: the tasks' results by position.
gather_all(ts) == [i \in DOMAIN ts |-> ts[i].res]

\* valid_js built without its filter.
ValidOf_unfiltered(raw) == raw

\* The two comprehensions of main over raw_results.
ValidOf(raw) == SelectSeq(raw, LAMBDA r : ~IsErrorText(r[2]))

ErroredOf(raw) == SelectSeq(raw, LAMBDA r : IsErrorText(r[2]))

\* for path, error in errored: print(...), unless --quiet
SkippedLines(errs, quiet) ==
    IF quiet THEN <<>> ELSE [k \in DOMAIN errs |-> <<"[!] Skipped", errs[k][1], errs[k][2]>>]

\* Where main is on entering batch_explain_with_gemini: an empty list has
\* nothing to submit.
BatchEntry(codes) == IF codes = <<>> THEN "collect" ELSE "submit"

\* main without its "if not valid_js: return": the batch is entered with
\* whatever is left, nothing included.
GatherReturn_noEmptyCheck ==
    /\ pc = "fetch"
    /\ \A i \in DOMAIN tasks : tasks[i].st = "done"
    /\ LET raw == gather_all(tasks)
           valid == ValidOf(raw)
           errs == ErroredOf(raw)
       IN  /\ raw_results' = raw
           /\ valid_js' = valid
           /\ errored' = errs
           /\ stdout' = stdout \o SkippedLines(errs, args.quiet)
                               \o (IF args.quiet THEN <<>> ELSE <<<<"Sending", Len(valid), max_workers>>>>)
           /\ beautified_codes' = [k \in DOMAIN valid |-> beautify_js(valid[k][2])]
           /\ pc' = BatchEntry(beautified_codes')
    /\ UNCHANGED <<tasks, fetched, fetchOrder>>
    /\ UNCHANGED <<mainVars, batchVars, recordVars>>

\* asyncio.run returns once every task is done; main splits the results,
\* reports the skipped ones, stops when nothing is left, and otherwise
\* beautifies what is left and enters batch_explain_with_gemini.
GatherReturn ==
    /\ pc = "fetch"
    /\ \A i \in DOMAIN tasks : tasks[i].st = "done"
    /\ LET raw == gather_all(tasks)
           valid == ValidOf(raw)
           errs == ErroredOf(raw)
       IN  /\ raw_results' = raw
           /\ valid_js' = valid
           /\ errored' = errs
           /\ IF valid = <<>>
              THEN /\ stdout' = stdout \o SkippedLines(errs, args.quiet) \o <<<<"No valid JS files found.">>>>
                   /\ beautified_codes' = beautified_codes
                   /\ pc' = "done"
              ELSE /\ stdout' = stdout \o SkippedLines(errs, args.quiet)
                                    \o (IF args.quiet THEN <<>> ELSE <<<<"Sending", Len(valid), max_workers>>>>)
                   /\ beautified_codes' = [k \in DOMAIN valid |-> beautify_js(valid[k][2])]
                   /\ pc' = BatchEntry(beautified_codes')
    /\ UNCHANGED <<tasks, fetched, fetchOrder>>
    /\ UNCHANGED <<mainVars, batchVars, recordVars>>

\* -------------------------------------------------------- analysis stage

\* The idx whose call is running on a worker thread.
InFlight == {i \in DOMAIN futures : futures[i].st = "running"}

\* executor.submit for the next idx of enumerate(beautified_list): the work
\* item is queued and its future kept; after the last one main goes on to
\* as_completed.
Submit ==
    /\ pc = "submit"
    /\ Len(futures) < Len(beautified_codes)
    /\ futures' = Append(futures, [st |-> "queued", result |-> <<>>])
    /\ oracle' = Append(oracle, [calls |-> 0, prompt |-> <<>>, outcome |-> NO_OUTCOME])
    /\ pc' = IF Len(futures) + 1 = Len(beautified_codes) THEN "collect" ELSE "submit"
    /\ UNCHANGED <<stdout, results, explanations>>
    /\ UNCHANGED <<mainVars, fetchVars, recordVars>>

\* A pool that keeps one of its max_workers threads idle.
WorkerFree_keepsOneIdle == Cardinality(InFlight) < max_workers - 1

\* A pool that admits a work item while max_workers are already running.
WorkerFree_offByOne == Cardinality(InFlight) <= max_workers

\* Whether the pool may start one more work item: it runs at most
\* max_workers threads and each runs one item at a time.
WorkerFree == Cardinality(InFlight) < max_workers

\* A worker thread takes the oldest queued work item and calls
\* explain_with_gemini, which builds the prompt and calls the oracle.
WorkerStart(i) ==
    /\ i \in DOMAIN futures
    /\ futures[i].st = "queued"
    /\ \A j \in 1..(i - 1) : futures[j].st # "queued"
    /\ WorkerFree
    /\ futures' = [futures EXCEPT ![i].st = "running"]
    /\ oracle' = [oracle EXCEPT ![i].calls = @ + 1, ![i].prompt = Prompt(beautified_codes[i])]
    /\ UNCHANGED <<pc, stdout, results, explanations>>
    /\ UNCHANGED <<mainVars, fetchVars, recordVars>>

\* A worker that puts a call that raised back on the queue.
WorkerFinish_retry(i) ==
    /\ i \in DOMAIN futures
    /\ futures[i].st = "running"
    /\ \E outcome \in OracleOutcomes(oracle[i].prompt) :
           /\ futures' = [futures EXCEPT
                  ![i] = IF outcome.raises
                         THEN [st |-> "queued", result |-> <<>>]
                         ELSE [st |-> "finished", result |-> explain_with_gemini(beautified_codes[i], outcome)]]
           /\ oracle' = [oracle EXCEPT ![i].outcome = outcome]
    /\ UNCHANGED <<pc, stdout, results, explanations>>
    /\ UNCHANGED <<mainVars, fetchVars, recordVars>>

\* The oracle call of idx i ends, in whatever order the calls end;
\* explain_with_gemini returns and the worker sets the future's result.
WorkerFinish(i) ==
    /\ i \in DOMAIN futures
    /\ futures[i].st = "running"
    /\ \E outcome \in OracleOutcomes(oracle[i].prompt) :
           /\ futures' = [futures EXCEPT
                  ![i] = [st |-> "finished", result |-> explain_with_gemini(beautified_codes[i], outcome)]]
           /\ oracle' = [oracle EXCEPT ![i].outcome = outcome]
    /\ UNCHANGED <<pc, stdout, results, explanations>>
    /\ UNCHANGED <<mainVars, fetchVars, recordVars>>

\* The idx (of enumerate, from 0) already appended to results.
Collected == {results[k][1] : k \in DOMAIN results}

\* An as_completed that may yield a finished future again.
Collect_again(i) ==
    /\ pc = "collect"
    /\ i \in DOMAIN futures
    /\ futures[i].st = "finished"
    /\ results' = Append(results, <<i - 1, futures[i].result>>)
    /\ UNCHANGED <<pc, stdout, futures, explanations, oracle>>
    /\ UNCHANGED <<mainVars, fetchVars, recordVars>>

\* One iteration of "for future in as_completed(futures)": a finished
\* future not yet yielded is yielded and (idx, result) appended.
Collect(i) ==
    /\ pc = "collect"
    /\ i \in DOMAIN futures
    /\ futures[i].st = "finished"
    /\ (i - 1) \notin Collected
    /\ results' = Append(results, <<i - 1, futures[i].result>>)
    /\ UNCHANGED <<pc, stdout, futures, explanations, oracle>>
    /\ UNCHANGED <<mainVars, fetchVars, recordVars>>

\* batch_explain_with_gemini without its results.sort(): the results in
\* the order they were appended.
batch_explain_unsorted(rs) == Seconds(rs)

\* What batch_explain_with_gemini returns from results.
batch_explain_with_gemini(rs) == Seconds(SortResults(rs))

\* A batch that returns on the first result, leaving the other calls behind.
BatchReturn_firstDone ==
    /\ pc = "collect"
    /\ Len(results) >= 1
    /\ explanations' = batch_explain_with_gemini(results)
    /\ pc' = "record"
    /\ UNCHANGED <<stdout, futures, results, oracle>>
    /\ UNCHANGED <<mainVars, fetchVars, recordVars>>

\* as_completed is exhausted: the executor shuts down, results is sorted and
\* its second components returned to main.
BatchReturn ==
    /\ pc = "collect"
    /\ Len(results) = Len(futures)
    /\ explanations' = batch_explain_with_gemini(results)
    /\ pc' = "record"
    /\ UNCHANGED <<stdout, futures, results, oracle>>
    /\ UNCHANGED <<mainVars, fetchVars, recordVars>>

\* -------------------------------------------------------- recording loop

\* What save_output writes into output/<name>.md.
save_output(name, explanation, extracted) ==
    [explanation |-> explanation, urls |-> extracted.urls, tokens |-> extracted.tokens]

\* The loop skipping the items whose explanation is an error text.
Record_skipErrors ==
    /\ pc = "record"
    /\ saved < Len(valid_js)
    /\ LET i == saved + 1
           path == valid_js[i][1]
           code == valid_js[i][2]
           name == OutputName(path)
       IN  /\ output' = IF IsErrorText(explanations[i])
                        THEN output
                        ELSE (name :> save_output(name, explanations[i], extract_info(code))) @@ output
           /\ saveLog' = Append(saveLog, [name |-> name, path |-> path])
           /\ saved' = i
    /\ UNCHANGED <<pc, stdout>>
    /\ UNCHANGED <<mainVars, fetchVars, batchVars>>

\* The loop extracting the findings from the beautified code.
Record_fromBeautified ==
    /\ pc = "record"
    /\ saved < Len(valid_js)
    /\ LET i == saved + 1
           path == valid_js[i][1]
           code == beautified_codes[i]
           name == OutputName(path)
       IN  /\ output' = (name :> save_output(name, explanations[i], extract_info(code))) @@ output
           /\ saveLog' = Append(saveLog, [name |-> name, path |-> path])
           /\ saved' = i
    /\ UNCHANGED <<pc, stdout>>
    /\ UNCHANGED <<mainVars, fetchVars, batchVars>>

\* The loop taking path and code at position i of the unfiltered results.
Record_rawIndex ==
    /\ pc = "record"
    /\ saved < Len(valid_js)
    /\ LET i == saved + 1
           path == raw_results[i][1]
           code == raw_results[i][2]
           name == OutputName(path)
       IN  /\ output' = (name :> save_output(name, explanations[i], extract_info(code))) @@ output
           /\ saveLog' = Append(saveLog, [name |-> name, path |-> path])
           /\ saved' = i
    /\ UNCHANGED <<pc, stdout>>
    /\ UNCHANGED <<mainVars, fetchVars, batchVars>>

\* The loop leaving a file that exists as it is.
Record_keepFirst ==
    /\ pc = "record"
    /\ saved < Len(valid_js)
    /\ LET i == saved + 1
           path == valid_js[i][1]
           code == valid_js[i][2]
           name == OutputName(path)
       IN  /\ output' = output @@ (name :> save_output(name, explanations[i], extract_info(code)))
           /\ saveLog' = Append(saveLog, [name |-> name, path |-> path])
           /\ saved' = i
    /\ UNCHANGED <<pc, stdout>>
    /\ UNCHANGED <<mainVars, fetchVars, batchVars>>

\* One iteration of "for i, (path, code) in enumerate(valid_js)": the name,
\* the findings of the raw code, and the file written over whatever
\* output/<name>.md held.
Record ==
    /\ pc = "record"
    /\ saved < Len(valid_js)
    /\ LET i == saved + 1
           path == valid_js[i][1]
           code == valid_js[i][2]
           name == OutputName(path)
       IN  /\ output' = (name :> save_output(name, explanations[i], extract_info(code))) @@ output
           /\ saveLog' = Append(saveLog, [name |-> name, path |-> path])
           /\ saved' = i
    /\ UNCHANGED <<pc, stdout>>
    /\ UNCHANGED <<mainVars, fetchVars, batchVars>>

\* The loop is over: main prints its last line and returns.
MainFinish ==
    /\ pc = "record"
    /\ saved = Len(valid_js)
    /\ stdout' = IF args.quiet THEN stdout ELSE Append(stdout, <<"Done!">>)
    /\ pc' = "done"
    /\ UNCHANGED <<mainVars, fetchVars, batchVars, recordVars>>

\* -------------------------------------------------------- specifications

\* argparse's defaults: -t 3, no --quiet.
DefaultArgs == [thread |-> 3, quiet |-> FALSE]

NoInput == [exists |-> FALSE, lines |-> <<>>]

\* Nothing fetched, analysed or recorded yet.
FetchIdle ==
    /\ tasks = <<>>
    /\ raw_results = <<>>
    /\ valid_js = <<>>
    /\ errored = <<>>
    /\ beautified_codes = <<>>
    /\ fetched = <<>>
    /\ fetchOrder = <<>>

BatchIdle ==
    /\ futures = <<>>
    /\ results = <<>>
    /\ explanations = <<>>
    /\ oracle = <<>>

RecordIdle ==
    /\ saved = 0
    /\ output = NoFiles
    /\ saveLog = <<>>

\* A run of main: any of the thread counts, quiet or not, the input file
\* missing or made of up to MaxLines lines.
Init ==
    /\ args \in [thread : ThreadArgs, quiet : BOOLEAN]
    /\ inputFile \in {NoInput} \cup {[exists |-> TRUE, lines |-> ls] : ls \in SeqsUpTo(FileLines, MaxLines)}
    /\ pc = "start"
    /\ max_workers = 0
    /\ paths = <<>>
    /\ stdout = <<>>
    /\ FetchIdle
    /\ BatchIdle
    /\ RecordIdle

FetchNext ==
    \/ \E i \in DOMAIN tasks : get_js_content_start(i)
    \/ \E i \in DOMAIN tasks : get_js_content_resume(i)
    \/ GatherReturn

BatchNext ==
    \/ Submit
    \/ \E i \in DOMAIN futures : WorkerStart(i)
    \/ \E i \in DOMAIN futures : WorkerFinish(i)
    \/ \E i \in DOMAIN futures : Collect(i)
    \/ BatchReturn

RecordNext ==
    \/ Record
    \/ MainFinish

Next ==
    \/ MainStart
    \/ FetchNext
    \/ BatchNext
    \/ RecordNext

Spec == Init /\ [][Next]_vars

\* The input files of FairSpec: a remote and a local ref; a local ref, a
\* missing one and a remote one; two remote refs and a local one.
FairInputs ==
    {<<Append(URL_A, "\n"), Append(FILE_A, "\n")>>,
     <<Append(FILE_A, "\n"), Append(NO_FILE, "\n"), Append(URL_A, "\n")>>,
     <<Append(URL_A, "\n"), Append(URL_A, "\n"), Append(FILE_A, "\n")>>}

InitFair ==
    /\ args \in [thread : ThreadArgs, quiet : {FALSE}]
    /\ inputFile \in {[exists |-> TRUE, lines |-> ls] : ls \in FairInputs}
    /\ pc = "start"
    /\ max_workers = 0
    /\ paths = <<>>
    /\ stdout = <<>>
    /\ FetchIdle
    /\ BatchIdle
    /\ RecordIdle

\* The runs of main on FairInputs in which the event loop goes on running
\* the tasks that can run, every request ends, the pool's threads go on
\* taking queued work, every oracle call ends, and main goes on whenever it
\* can.
FairSpec ==
    /\ InitFair
    /\ [][Next]_vars
    /\ WF_vars(MainStart)
    /\ WF_vars(FetchNext)
    /\ WF_vars(BatchNext)
    /\ WF_vars(RecordNext)

\* Runs of main on one input file, a remote and a local ref, with every
\* requested thread count of -MaxThreadArg..MaxThreadArg.
TwoRefs == [exists |-> TRUE, lines |-> <<Append(URL_A, "\n"), Append(FILE_A, "\n")>>]

InitArgs ==
    /\ args \in [thread : (-MaxThreadArg)..MaxThreadArg, quiet : {FALSE}]
    /\ inputFile = TwoRefs
    /\ pc = "start"
    /\ max_workers = 0
    /\ paths = <<>>
    /\ stdout = <<>>
    /\ FetchIdle
    /\ BatchIdle
    /\ RecordIdle

SpecArgs == InitArgs /\ [][Next]_vars

\* gather_all on every non-empty list of up to MaxRefs refs.
InitFetch ==
    /\ args = DefaultArgs
    /\ inputFile = NoInput
    /\ pc = "fetch"
    /\ max_workers = Clamp(DefaultArgs.thread)
    /\ paths \in SeqsUpTo(Refs, MaxRefs) \ {<<>>}
    /\ stdout = <<>>
    /\ tasks = [i \in DOMAIN paths |-> [st |-> "created", res |-> <<>>]]
    /\ fetched = [i \in DOMAIN paths |-> "none"]
    /\ fetchOrder = <<>>
    /\ raw_results = <<>>
    /\ valid_js = <<>>
    /\ errored = <<>>
    /\ beautified_codes = <<>>
    /\ BatchIdle
    /\ RecordIdle

SpecFetch == InitFetch /\ [][FetchNext]_vars

\* The i-th of the texts batch_explain_with_gemini is called with.
Text(i) == <<"x", " ", "=", " ", Digit(i)>>

\* The lists of n texts: pairwise different, and all the same.
TextLists(n) == {[i \in 1..n |-> Text(i)], [i \in 1..n |-> Text(1)]}

\* batch_explain_with_gemini on the lists of up to MaxTexts texts, with
\* every max_workers of 1..10.
InitBatch ==
    /\ args = DefaultArgs
    /\ inputFile = NoInput
    /\ max_workers \in MIN_THREADS..MAX_THREADS
    /\ paths = <<>>
    /\ stdout = <<>>
    /\ tasks = <<>>
    /\ raw_results = <<>>
    /\ valid_js = <<>>
    /\ errored = <<>>
    /\ fetched = <<>>
    /\ fetchOrder = <<>>
    /\ beautified_codes \in UNION {TextLists(n) : n \in 0..MaxTexts}
    /\ pc = BatchEntry(beautified_codes)
    /\ BatchIdle
    /\ RecordIdle

SpecBatch == InitBatch /\ [][BatchNext]_vars

\* The characters the refs of SpecName are written with: the nine of the
\* substitution's class and those of ".js".
NameAlphabet == UnsafeChars \cup {"a", ".", "j", "s"}

\* The recording loop on one kept item, for every ref of up to MaxNameLen
\* characters.
InitName ==
    /\ args = DefaultArgs
    /\ inputFile = NoInput
    /\ pc = "record"
    /\ max_workers = Clamp(DefaultArgs.thread)
    /\ \E p \in StringsUpTo(NameAlphabet, MaxNameLen) :
           /\ paths = <<p>>
           /\ valid_js = <<<<p, CODE_B>>>>
    /\ stdout = <<>>
    /\ tasks = <<>>
    /\ raw_results = <<>>
    /\ errored = <<>>
    /\ fetched = <<>>
    /\ fetchOrder = <<>>
    /\ beautified_codes = <<beautify_js(CODE_B)>>
    /\ futures = <<>>
    /\ results = <<>>
    /\ oracle = <<>>
    /\ explanations = <<<<"o", "k">>>>
    /\ RecordIdle

SpecName == InitName /\ [][RecordNext]_vars

\* The characters the refs of SpecSuffix are written with: a letter, those
\* of ".js", and the separators of the query string and of the path.
SuffixAlphabet == {"a", ".", "j", "s", "?", "/"}

\* The recording loop on one kept item, for every ref of up to
\* MaxSuffixLen characters of SuffixAlphabet.
InitSuffix ==
    /\ args = DefaultArgs
    /\ inputFile = NoInput
    /\ pc = "record"
    /\ max_workers = Clamp(DefaultArgs.thread)
    /\ \E p \in StringsUpTo(SuffixAlphabet, MaxSuffixLen) :
           /\ paths = <<p>>
           /\ valid_js = <<<<p, CODE_B>>>>
    /\ stdout = <<>>
    /\ tasks = <<>>
    /\ raw_results = <<>>
    /\ errored = <<>>
    /\ fetched = <<>>
    /\ fetchOrder = <<>>
    /\ beautified_codes = <<beautify_js(CODE_B)>>
    /\ futures = <<>>
    /\ results = <<>>
    /\ oracle = <<>>
    /\ explanations = <<<<"o", "k">>>>
    /\ RecordIdle

SpecSuffix == InitSuffix /\ [][RecordNext]_vars

\* ================================================================ claims

\* What the call of idx i must have handed back, read off the oracle's
\* history alone: the error text when the oracle raised, else its answer
\* without the blanks around it.
ExpectedResult(i) ==
    IF oracle[i].outcome.raises
    THEN <<"[", "E", "R", "R", "O", "R", "]", " ", "G", "e", "m", "i", "n", "i", " ",
           "f", "a", "i", "l", "e", "d", ":", " ">> \o oracle[i].outcome.text
    ELSE Strip(oracle[i].outcome.text)

\* C1: once batch_explain_with_gemini has returned, its result is as long as
\* its input and position i holds the result of the one oracle call made
\* with the prompt of input i, whatever the order of completion.
C1_InputOrder ==
    (pc = "record") =>
        /\ Len(explanations) = Len(beautified_codes)
        /\ \A i \in DOMAIN beautified_codes :
               /\ oracle[i].calls = 1
               /\ oracle[i].prompt = Prompt(beautified_codes[i])
               /\ explanations[i] = ExpectedResult(i)

\* C1's case: three or more calls collected in the reverse of their input
\* order, two of them with the same result text.
C1_Witness ==
    /\ pc = "record"
    /\ Len(results) >= 3
    /\ \A k \in 1..(Len(results) - 1) : results[k][1] > results[k + 1][1]
    /\ explanations[1] = explanations[2]

\* C2 (the bound): the calls started and not yet returned never outnumber
\* max_workers.
C2_AtMostMaxWorkers == Cardinality(InFlight) <= max_workers

\* C2 (the admission): a queued call is started only in a step that begins
\* with fewer than max_workers calls in flight, and a call that starts
\* while max_workers others were in flight a step earlier is never seen.
C2_AdmittedWhenFree ==
    [][\A i \in DOMAIN futures :
           (futures[i].st = "queued" /\ futures'[i].st = "running")
               => Cardinality(InFlight) < max_workers]_vars

\* C2: at most max_workers oracle calls are in flight, and a queued call is
\* admitted only once a worker is free.
C2_BoundedPool == [](C2_AtMostMaxWorkers) /\ C2_AdmittedWhenFree

\* C2's case: every worker busy while a call waits in the queue after all
\* were submitted.
C2_Witness ==
    /\ pc = "collect"
    /\ Cardinality(InFlight) = max_workers
    /\ \E i \in DOMAIN futures : futures[i].st = "queued"
    /\ \E i \in DOMAIN futures : futures[i].st = "finished"

\* Whether asyncio.run(gather_all(paths)) has returned.
GatherReturned == pc \notin {"start", "fetch"} /\ paths # <<>>

\* C3: gather_all returns one (ref, result) pair per input ref, in input
\* order: pair i carries refs[i] and is what fetch i returned.
C3_OnePairPerRef ==
    GatherReturned =>
        /\ Len(raw_results) = Len(paths)
        /\ \A i \in DOMAIN paths :
               /\ raw_results[i][1] = paths[i]
               /\ raw_results[i] = tasks[i].res
               /\ Len(raw_results[i]) = 2
               /\ Cardinality({k \in DOMAIN fetchOrder : fetchOrder[k] = i}) = 1

\* C3's case: the same ref twice with different results, one of them a
\* failure, the later ref's fetch ending first.
C3_Witness ==
    /\ GatherReturned
    /\ \E i, j \in DOMAIN paths :
           /\ i < j
           /\ paths[i] = paths[j]
           /\ raw_results[i][2] # raw_results[j][2]
           /\ fetched[i] = "error"
           /\ \E a, b \in DOMAIN fetchOrder :
                  a < b /\ fetchOrder[a] = j /\ fetchOrder[b] = i

\* C4: when the oracle call of item i fails, position i of the result is an
\* error text and every other position holds what its own call returned;
\* every call was made once, failed siblings or not. With four inputs and
\* the calls of idx 1 and 3 failing, positions 1 and 3 are errors and
\* positions 0 and 2 reports.
C4_FailureIsolated ==
    (pc = "record") =>
        /\ \A i \in DOMAIN explanations :
               /\ oracle[i].calls = 1
               /\ oracle[i].outcome.raises =>
                      /\ StartsWith(explanations[i], <<"[", "E", "R", "R", "O", "R", "]">>)
                      /\ \A j \in DOMAIN explanations \ {i} :
                             explanations[j] = ExpectedResult(j)
               /\ ~oracle[i].outcome.raises =>
                      explanations[i] = Strip(oracle[i].outcome.text)
        /\ (/\ Len(explanations) = 4
            /\ \A i \in 1..4 : oracle[i].outcome.raises <=> (i - 1) % 2 = 1)
               => /\ IsErrorText(explanations[2]) /\ IsErrorText(explanations[4])
                  /\ ~IsErrorText(explanations[1]) /\ ~IsErrorText(explanations[3])

\* C4's case: four inputs, the calls of idx 1 and 3 failed, those of idx 0
\* and 2 answered.
C4_Witness ==
    /\ pc = "record"
    /\ Len(explanations) = 4
    /\ \A i \in 1..4 : oracle[i].outcome.raises <=> (i - 1) % 2 = 1
    /\ IsErrorText(explanations[2])
    /\ ~IsErrorText(explanations[3])

\* The refs whose fetch succeeded: status 200, or a local read that raised
\* nothing.
FetchedOk == {i \in DOMAIN fetched : fetched[i] = "ok"}

FetchedError == {i \in DOMAIN fetched : fetched[i] = "error"}

\* C5 (the results): a non-200 status, a transport fault, a read fault or
\* an invalid path gives the pair of that ref an error text; every sibling
\* whose fetch succeeded holds the text it read; gather_all returns every
\* task's own pair, none missing.
C5_FaultsAreResults ==
    /\ \A i \in DOMAIN tasks :
           /\ (i \in FetchedError) =>
                  /\ tasks[i].st = "done"
                  /\ tasks[i].res[1] = paths[i]
                  /\ StartsWith(tasks[i].res[2], <<"[", "E", "R", "R", "O", "R", "]", " ">>)
           /\ (i \in FetchedOk) =>
                  /\ tasks[i].st = "done"
                  /\ tasks[i].res =
                         <<paths[i], IF paths[i] \in DOMAIN Files THEN Files[paths[i]] ELSE CODE_B>>
    /\ GatherReturned =>
           /\ FetchedOk \cup FetchedError = DOMAIN paths
           /\ \A i \in DOMAIN paths : raw_results[i] = tasks[i].res

\* C5 (the siblings): the step in which one fetch ends in error leaves the
\* stage running and every other task as it was.
C5_SiblingsUntouched ==
    [][\A i \in DOMAIN fetched :
           (fetched[i] = "none" /\ fetched'[i] = "error")
               => /\ pc' = "fetch"
                  /\ \A j \in DOMAIN tasks \ {i} : tasks'[j] = tasks[j]]_vars

\* C5: a fault of one fetch is an in-band error result for that ref only;
\* it neither leaves gather_all nor touches a sibling task.
C5_FetchFaultInBand == [](C5_FaultsAreResults) /\ C5_SiblingsUntouched

\* C5's case: gather_all has returned; a 404, a transport fault, a read
\* fault and an invalid path are among the results, and so is a success.
C5_Witness ==
    /\ GatherReturned
    /\ HttpError(404) \in {raw_results[i][2] : i \in DOMAIN raw_results}
    /\ FaultError(<<"t", "i", "m", "e", "o", "u", "t">>) \in {raw_results[i][2] : i \in DOMAIN raw_results}
    /\ raw_results[Len(raw_results)] = <<URL_A, CODE_B>>
    /\ \E i \in DOMAIN paths : raw_results[i] = <<NO_FILE, INVALID_PATH>>

\* Whether main ran through its recording loop.
RanToEnd == pc = "done" /\ Len(raw_results) = Len(paths) /\ paths # <<>>

\* C6 (as claimed): at the end of a run every ref whose fetch succeeded,
\* whatever its text, has had one oracle call, one extraction and one
\* output record: as many of each as fetches that succeeded.
C6_NoFetchedItemDropped ==
    RanToEnd =>
        /\ Len(oracle) = Cardinality(FetchedOk)
        /\ \A k \in DOMAIN oracle : oracle[k].calls = 1
        /\ Len(saveLog) = Cardinality(FetchedOk)
        /\ \A i \in FetchedOk : \E k \in DOMAIN saveLog : saveLog[k].path = paths[i]

\* C7: a ref whose fetch ended in error is in errored and not in valid_js;
\* what is beautified, submitted to the oracle and recorded is made of
\* valid_js alone.
C7_ErroredNeverAnalysed ==
    /\ GatherReturned =>
           \A i \in FetchedError :
               /\ raw_results[i] \in Range(errored)
               /\ raw_results[i] \notin Range(valid_js)
    /\ Len(valid_js) + Cardinality(FetchedError) <= Len(paths)
    /\ Len(beautified_codes) <= Len(valid_js)
    /\ Len(oracle) <= Len(valid_js)
    /\ \A k \in DOMAIN oracle :
           oracle[k].calls > 0 => oracle[k].prompt = Prompt(beautify_js(valid_js[k][2]))
    /\ \A k \in DOMAIN valid_js : ~StartsWith(valid_js[k][2], <<"[", "E", "R", "R", "O", "R", "]">>)
    /\ Len(saveLog) <= Len(valid_js)
    /\ \A k \in DOMAIN saveLog : saveLog[k].path = valid_js[k][1]
    /\ Cardinality(DOMAIN output) <= Len(valid_js)

\* C7's case: a run that ended with a record written for the second ref
\* while the first ref's fetch had failed and was reported as skipped.
C7_Witness ==
    /\ RanToEnd
    /\ Len(paths) = 2
    /\ fetched = <<"error", "ok">>
    /\ Len(saveLog) = 1
    /\ stdout[1] = <<"[!] Skipped", paths[1], raw_results[1][2]>>

\* C8: whatever thread count is requested, the pool works with
\* max(1, min(t, 10)) workers: 1 below 1, 10 above 10, t in between, and
\* never more calls in flight than that.
C8_ClampedPool ==
    (pc # "start") =>
        /\ max_workers \in 1..10
        /\ (args.thread < 1) => max_workers = 1
        /\ (args.thread > 10) => max_workers = 10
        /\ (args.thread \in 1..10) => max_workers = args.thread
        /\ Cardinality(InFlight) <= max_workers

\* C8's case: 57 threads requested and the pool, of 10 workers, at work.
C8_Witness ==
    /\ args.thread = 57
    /\ max_workers = 10
    /\ Cardinality(InFlight) = 2

\* C9: no name a record is written under holds any of \ / * ? : " < > |.
C9_SafeNames ==
    \A name \in DOMAIN output :
        \A k \in DOMAIN name :
            name[k] \notin {"\\", "/", "*", "?", ":", "\"", "<", ">", "|"}

\* C9's case: a record written for a ref that holds a backslash and a
\* colon in its last segment.
C9_Witness ==
    /\ paths = <<<<"a", ":", "\\">>>>
    /\ DOMAIN output = {<<"a", "_", "_">>}

\* Whether a line of the input file holds nothing but blanks.
BlankLine(line) == \A k \in DOMAIN line : line[k] \in {" ", "\n", "\t"}

\* C10: with the input file missing or without a non-blank line, no fetch
\* is started, no oracle call made and no record written, in any state of
\* the run.
C10_AbortBeforeWork ==
    (~inputFile.exists \/ \A k \in DOMAIN inputFile.lines : BlankLine(inputFile.lines[k])) =>
        /\ pc \in {"start", "done"}
        /\ paths = <<>>
        /\ tasks = <<>>
        /\ fetchOrder = <<>>
        /\ futures = <<>>
        /\ oracle = <<>>
        /\ saveLog = <<>>
        /\ output = NoFiles

\* C10's case: the run over a file made of blank lines has ended.
C10_Witness ==
    /\ pc = "done"
    /\ inputFile.exists
    /\ Len(inputFile.lines) = 2
    /\ \A k \in DOMAIN inputFile.lines : BlankLine(inputFile.lines[k])

\* The findings of the model's two kept texts, written out.
ExpectedFindings(code) ==
    IF code = CODE_A
    THEN [urls |-> {<<"h", "t", "t", "p", ":", "/", "/", "h", "/", "p">>},
          tokens |-> {<<"a", "-", "b", "c", "d", "e", "f", "g", "h">>}]
    ELSE [urls |-> {}, tokens |-> {}]

\* C11: when the oracle call of a kept item fails, the record just written
\* for it holds the error text as its analysis and the findings of its
\* text, the same as after an answer; no analysis failure is in errored.
C11_FailedAnalysisRecorded ==
    /\ (saved >= 1 /\ oracle[saved].outcome.raises) =>
           LET name == saveLog[saved].name
           IN  /\ saveLog[saved].path = valid_js[saved][1]
               /\ name \in DOMAIN output
               /\ output[name].explanation =
                      <<"[", "E", "R", "R", "O", "R", "]", " ", "G", "e", "m", "i", "n", "i", " ",
                        "f", "a", "i", "l", "e", "d", ":", " ">> \o oracle[saved].outcome.text
               /\ output[name].urls = ExpectedFindings(valid_js[saved][2]).urls
               /\ output[name].tokens = ExpectedFindings(valid_js[saved][2]).tokens
               /\ valid_js[saved] \notin Range(errored)
    /\ \A k \in DOMAIN errored : \A j \in DOMAIN oracle : errored[k][2] # ExpectedResult(j)

\* C11's case: a run that ended with a record whose analysis is the error
\* text of a failed call and whose findings hold a token.
C11_Witness ==
    /\ pc = "done"
    /\ saved >= 1
    /\ oracle[saved].outcome.raises
    /\ saveLog[saved].name \in DOMAIN output
    /\ IsErrorText(output[saveLog[saved].name].explanation)
    /\ output[saveLog[saved].name].tokens # {}

\* The last kept item, in input order, written under name.
LastWriter(name) ==
    CHOOSE k \in DOMAIN saveLog :
        /\ saveLog[k].name = name
        /\ \A j \in DOMAIN saveLog : saveLog[j].name = name => j <= k

StripSuffix(s) ==
    IF Len(s) >= Len(DOT_JS) /\ SubSeq(s, Len(s) - Len(DOT_JS) + 1, Len(s)) = DOT_JS
    THEN SubSeq(s, 1, Len(s) - Len(DOT_JS))
    ELSE s

\* C13: the name a record is written under is the last path segment of its
\* ref, cut at the first "?", without the ".js" it ends with, each unsafe
\* character replaced by "_"; every other character is kept.
C13_SuffixStripped ==
    \A k \in DOMAIN saveLog :
        saveLog[k].name = Sanitize(StripSuffix(BeforeQuery(basename(saveLog[k].path))))

\* C14 (the counts): no ref's fetch ends twice; no oracle call is made
\* twice for one normalized text, and once the batch has returned exactly
\* one has been made for each, raised or not.
C14_OnceEach ==
    /\ \A i \in DOMAIN tasks : Cardinality({k \in DOMAIN fetchOrder : fetchOrder[k] = i}) <= 1
    /\ \A i \in DOMAIN tasks : (tasks[i].st = "done") <=> (i \in Range(fetchOrder))
    /\ \A i \in DOMAIN futures :
           /\ oracle[i].calls <= 1
           /\ (futures[i].st \in {"running", "finished"}) <=> (oracle[i].calls = 1)
    /\ (pc \in {"record", "done"} /\ valid_js # <<>>) =>
           /\ Len(oracle) = Len(beautified_codes)
           /\ \A i \in DOMAIN oracle : oracle[i].calls = 1

\* C14 (finality): a fetch that has ended and an oracle call that has
\* returned keep their result, error text or not, in every later step.
C14_ResultFinal ==
    [][/\ \A i \in DOMAIN tasks : tasks[i].st = "done" =>
              (i \in DOMAIN tasks' /\ tasks'[i] = tasks[i] /\ fetched'[i] = fetched[i])
       /\ \A i \in DOMAIN futures : futures[i].st = "finished" =>
              (i \in DOMAIN futures' /\ futures'[i] = futures[i] /\ oracle'[i] = oracle[i])]_vars

\* C14: nothing is retried: each ref is fetched at most once, each
\* normalized text goes to the oracle exactly once, and a failed fetch or
\* call is the item's final result.
C14_NoRetry == [](C14_OnceEach) /\ C14_ResultFinal

\* C14's case: a run has ended in which a fetch failed and an oracle call
\* raised; the failed ref was fetched once and the call made once.
C14_Witness ==
    /\ RanToEnd
    /\ FetchedError # {}
    /\ \E i \in DOMAIN oracle :
           /\ oracle[i].outcome.raises
           /\ oracle[i].calls = 1
           /\ IsErrorText(explanations[i])
    /\ Len(fetchOrder) = Len(paths)

\* C15 (nothing cancelled, states): main is past the fetch stage only when
\* no task is pending, past the batch only when every future is finished,
\* and at its end every kept item has its record.
C15_AllResolved ==
    /\ (pc \notin {"start", "fetch"}) => \A i \in DOMAIN tasks : tasks[i].st = "done"
    /\ (pc \in {"record", "done"}) => \A i \in DOMAIN futures : futures[i].st = "finished"
    /\ (pc = "done") => saved = Len(valid_js) /\ Len(futures) = Len(valid_js)

\* C15 (nothing cancelled, steps): a suspended fetch stays suspended until
\* it is done, a queued call stays queued until it runs, a running call
\* runs until it is finished.
C15_NoCancel ==
    [][/\ \A i \in DOMAIN tasks :
              tasks[i].st = "awaiting" => tasks'[i].st \in {"awaiting", "done"}
       /\ \A i \in DOMAIN futures :
              /\ futures[i].st = "queued" => futures'[i].st \in {"queued", "running"}
              /\ futures[i].st = "running" => futures'[i].st \in {"running", "finished"}]_vars

\* C15 (admission): whenever calls wait in the queue, a time comes when
\* none does; a queued call leaves the queue only by running (C15_NoCancel),
\* so every queued call is eventually admitted to a worker.
C15_Admitted ==
    (\E i \in DOMAIN futures : futures[i].st = "queued")
        ~> (futures # <<>> /\ \A i \in DOMAIN futures : futures[i].st \in {"running", "finished"})

\* C15: under fair scheduling, with fetches and oracle calls that end, every
\* run of main ends; every queued call is admitted, every item resolved,
\* and nothing in flight is dropped on the way.
C15_Terminates ==
    /\ <>(pc = "done")
    /\ C15_Admitted
    /\ [](C15_AllResolved)
    /\ C15_NoCancel

\* C15's case: a run has ended in which three calls went through a pool of
\* one worker, so that two of them waited in the queue, and one raised.
C15_Witness ==
    /\ pc = "done"
    /\ max_workers = 1
    /\ Len(futures) = 3
    /\ \A i \in DOMAIN futures : futures[i].st = "finished"
    /\ oracle[1].outcome.raises
    /\ saved = 3

\* C16 (the entries): results never holds an idx twice; each entry is the
\* result of the finished future of its idx; once as_completed is exhausted,
\* before the sort, results holds exactly one entry per input index.
C16_OneEntryPerIndex ==
    /\ \A k, l \in DOMAIN results : results[k][1] = results[l][1] => k = l
    /\ \A k \in DOMAIN results :
           LET i == results[k][1] + 1
           IN  /\ i \in DOMAIN futures
               /\ futures[i].st = "finished"
               /\ results[k][2] = futures[i].result
    /\ (pc = "record" \/ (pc = "collect" /\ Len(results) = Len(futures))) =>
           /\ Len(results) = Len(beautified_codes)
           /\ Collected = {i - 1 : i \in DOMAIN beautified_codes}

\* C16 (the writer): results changes only in the as_completed loop of the
\* submitting thread, by one entry appended in a step, and no worker sets
\* a future in that step.
C16_SingleWriter ==
    [][results' # results =>
           /\ pc = "collect"
           /\ \E i \in DOMAIN futures : results' = Append(results, <<i - 1, futures[i].result>>)
           /\ futures' = futures]_vars

\* C16: results is written by one unit at a time and gets each submitted
\* idx exactly once: before the final sort it holds one (idx, result) entry
\* per input index, none lost and none twice.
C16_ResultsWrittenOnce == [](C16_OneEntryPerIndex) /\ C16_SingleWriter

\* C16's case: the batch has returned from MaxTexts texts run by two
\* workers; results holds the MaxTexts idx, the last one first.
C16_Witness ==
    /\ pc = "record"
    /\ max_workers = 2
    /\ Len(results) = MaxTexts
    /\ results[1][1] = MaxTexts - 1
    /\ Collected = 0..(MaxTexts - 1)

\* C17: the record just written holds the findings of the text its ref's
\* fetch returned, not those of the beautified text; the prompt of every
\* oracle call made holds the beautified text of its ref.
C17_FindingsFromRaw ==
    /\ (saved >= 1) =>
           LET rec == output[saveLog[saved].name]
               raw == valid_js[saved][2]
           IN  /\ \E i \in DOMAIN tasks : tasks[i].res = <<saveLog[saved].path, raw>>
               /\ rec.urls = extract_info(raw).urls
               /\ rec.tokens = extract_info(raw).tokens
    /\ \A k \in DOMAIN oracle :
           (oracle[k].calls >= 1) => oracle[k].prompt = Prompt(beautify_js(valid_js[k][2]))

\* C17's case: a record is written for a text whose beautified form hides
\* its token; the record holds the token and the oracle was sent the
\* beautified form.
C17_Witness ==
    /\ saved >= 1
    /\ valid_js[saved][2] = CODE_A
    /\ extract_info(beautify_js(CODE_A)).tokens = {}
    /\ output[saveLog[saved].name].tokens = {<<"a", "-", "b", "c", "d", "e", "f", "g", "h">>}
    /\ oracle[saved].prompt = Prompt(beautified_codes[saved])
    /\ beautified_codes[saved] # CODE_A

\* The positions of the input list whose fetch returned a text that is not
\* an error text, and the k-th of them.
KeptRefs == {i \in DOMAIN tasks : tasks[i].st = "done" /\ ~IsErrorText(tasks[i].res[2])}

Origin(k) == CHOOSE i \in KeptRefs : Cardinality({j \in KeptRefs : j <= i}) = k

\* C18: the k-th record written is that of the k-th kept ref r of the input
\* list, whatever failed refs stand before or between: it is written under
\* r's name, its analysis is the result of the oracle call whose prompt
\* held r's beautified text, and its findings are those of r's text.
C18_PairedEndToEnd ==
    \A k \in 1..saved :
        LET r == Origin(k)
            text == tasks[r].res[2]
            name == OutputName(paths[r])
        IN  /\ fetched[r] = "ok"
            /\ saveLog[k] = [name |-> name, path |-> paths[r]]
            /\ oracle[k].calls = 1
            /\ oracle[k].prompt = Prompt(beautify_js(text))
            /\ (LastWriter(name) = k) =>
                   /\ output[name].explanation = ExpectedResult(k)
                   /\ output[name].urls = extract_info(text).urls
                   /\ output[name].tokens = extract_info(text).tokens

\* C18's case: the first ref failed to fetch and the second was fetched;
\* the one record is the second ref's, with the answer to its text.
C18_Witness ==
    /\ pc = "done"
    /\ fetched = <<"error", "ok">>
    /\ saved = 1
    /\ saveLog[1].path = paths[2]
    /\ ~oracle[1].outcome.raises
    /\ output[saveLog[1].name].explanation = Strip(oracle[1].outcome.text)

\* C19: once a call is submitted to the pool every fetch of the batch has
\* ended and gather_all has returned; once a record is written every call
\* of the batch, one per kept ref, has returned.
C19_StagesInSequence ==
    /\ (futures # <<>> \/ \E k \in DOMAIN oracle : oracle[k].calls > 0) =>
           /\ pc \notin {"start", "fetch"}
           /\ Len(raw_results) = Len(paths)
           /\ \A i \in DOMAIN tasks : tasks[i].st = "done" /\ fetched[i] # "none"
    /\ (saved > 0 \/ saveLog # <<>> \/ output # NoFiles) =>
           /\ pc \in {"record", "done"}
           /\ Len(futures) = Len(valid_js)
           /\ \A k \in DOMAIN futures :
                  /\ futures[k].st = "finished"
                  /\ oracle[k].calls = 1
                  /\ oracle[k].outcome # NO_OUTCOME

\* C19's case: the first record of two is written; both refs, one of them
\* remote, were fetched before and both oracle calls have returned.
C19_Witness ==
    /\ pc = "record"
    /\ saved = 1
    /\ paths = <<FILE_A, URL_A>>
    /\ Len(futures) = 2
    /\ \A k \in DOMAIN futures : futures[k].st = "finished"
    /\ results[1][1] = 1

\* C20: when gather_all has returned and no fetch of the list succeeded,
\* main is at its end: every ref is in errored and, unless --quiet, has its
\* "Skipped" line, followed by the closing message; no call was submitted
\* to a pool, no oracle call made and no record written.
C20_AllFailedEndsEarly ==
    (GatherReturned /\ FetchedOk = {}) =>
        /\ pc = "done"
        /\ valid_js = <<>>
        /\ beautified_codes = <<>>
        /\ [k \in DOMAIN errored |-> errored[k][1]] = paths
        /\ stdout = SkippedLines(errored, args.quiet) \o <<<<"No valid JS files found.">>>>
        /\ futures = <<>>
        /\ results = <<>>
        /\ explanations = <<>>
        /\ oracle = <<>>
        /\ saved = 0
        /\ saveLog = <<>>
        /\ output = NoFiles

\* C20's case: a run over two refs has ended, a remote one that failed and
\* a path that is no file; both are reported and nothing else was done.
C20_Witness ==
    /\ pc = "done"
    /\ paths = <<URL_A, NO_FILE>>
    /\ fetched = <<"error", "error">>
    /\ ~args.quiet
    /\ Len(stdout) = 3
    /\ stdout[2] = <<"[!] Skipped", NO_FILE, INVALID_PATH>>
    /\ oracle = <<>>

====
